---- MODULE Spec2Model ----
(***************************************************************************)
(* A model of the universal image crawler: the image store                 *)
(* (GenericImageCrawler.download_image), the page crawler                  *)
(* (GenericImageCrawler.crawl), the site ranker                            *)
(* (UniversalRanker.search_and_rank) and the tool handler                  *)
(* (handle_call_tool).                                                     *)
(*                                                                         *)
(* Five specifications share the variables:                                *)
(*   SpecStore  sequences of download_image calls on one output directory  *)
(*   Spec       calls of crawl, each a single step                         *)
(*   SpecRank   calls of search_and_rank                                   *)
(*   SpecServer calls of handle_call_tool (server.py)                      *)
(*   SpecConc   crawlers running download_image side by side, statement by *)
(*              statement, on one output directory                         *)
(***************************************************************************)
EXTENDS Integers, Sequences, FiniteSets, TLC

VARIABLES
    files,      \* the paths present under <output_dir>/images
    call,       \* the last download_image call: its arguments, response, result
    watch,      \* history: one source URL, fixed for the whole behaviour
    fetches,    \* history: session.get requests made for watch
    stored,     \* history: requests for watch that ended in a written file
    recs,       \* history: records download_image has returned for watch
    afterRec,   \* history: requests for watch made after its first record
    recPath,    \* history: the path in the first record returned for watch
    recReferer, \* history: the referer of the call that returned that record
    pc,         \* the crawler: "idle", or how the last crawl ended:
                \* "returned", "raised"
    start_url,  \* crawl's argument: the page
    max_images, \* crawl's argument: the cap
    keyword_filter, \* crawl's argument: the keyword, or NoKeywordArg
    soup,       \* what fetch_page returned: "none" before it, "None", "page"
    img_tags,   \* soup.find_all('img')
    page_resp,  \* history: the answer to crawl's page request (kind, status)
    results,    \* crawl's results
    log,        \* history: what the loop of crawl did, in order
    rpc,        \* the ranker: "idle", or "returned" after search_and_rank
    provider,   \* what the search provider did in the last search_and_rank
    ranked,     \* what search_and_rank returned
    spc,        \* the server: "idle", or how the last handle_call_tool ended:
                \* "returned", "raised"
    request,    \* handle_call_tool's arguments: name and arguments
    web,        \* history: the answers to the page requests of the sites
    reply,      \* what handle_call_tool returned
    proc,       \* the concurrent crawlers: where each is in download_image
    content     \* the concurrent crawlers: what each file of the directory holds

storeHist == <<watch, fetches, stored, recs, afterRec, recPath, recReferer>>
crawlVars == <<pc, start_url, max_images, keyword_filter, soup, img_tags,
               page_resp, results, log>>
rankVars == <<rpc, provider, ranked>>
serverVars == <<spc, request, web, reply>>
concVars == <<proc, content>>
vars == <<files, call, storeHist, crawlVars, rankVars, serverVars, concVars>>

----------------------------------------------------------------------------
(* Bounds of the model *)

\* size of the identifier space the digest is truncated to (16^12 in the code)
HashSpace == 5
\* history counters stop the watched URL's calls at this many requests
MaxFetch == 2
\* the most image elements a page has
MaxImgs == 2
\* the largest max_images crawl is called with
MaxCap == 2
\* the most results the search provider returns
MaxRaw == 3

----------------------------------------------------------------------------
(* URLs.  A URL is the pair os.path.splitext makes of its path: the words  *)
(* of the stem and the extension as written (with its case).               *)

Url(host, name, ext) == [host |-> host, name |-> name, ext |-> ext]

CatJpg    == Url("site.com", <<"cat">>, ".jpg")
DogPNG    == Url("site.com", <<"DOG">>, ".PNG")
CatNoExt  == Url("site.com", <<"Cat", "img">>, "")
Jpeg2000  == Url("site.com", <<"scan">>, ".jpeg2000")
PicJpg    == Url("site.com", <<"pic">>, ".jpg")
CatLogo   == Url("site.com", <<"cat", "LOGO">>, ".png")
CatSvg    == Url("site.com", <<"cat">>, ".svg")
IconJpg   == Url("site.com", <<"Icon", "cat">>, ".jpg")

StoreUrls == {CatJpg, DogPNG, CatNoExt, Jpeg2000, PicJpg}

SitePage  == Url("site.com", <<"p">>, "")
OtherPage == Url("other.org", <<"q">>, "")
Referers == {SitePage, OtherPage}

\* str.lower() on the strings of the model
Lower(s) ==
    CASE s = "DOG"  -> "dog"
      [] s = "Cat"  -> "cat"
      [] s = "CAT"  -> "cat"
      [] s = "Icon" -> "icon"
      [] s = "LOGO" -> "logo"
      [] s = "A"    -> "a"
      [] s = ".PNG" -> ".png"
      [] s = ".SVG" -> ".svg"
      [] OTHER      -> s

\* len() of an extension, the dot included
StrLen(s) ==
    CASE s = ""          -> 0
      [] s = ".jpg"      -> 4
      [] s = ".png"      -> 4
      [] s = ".gif"      -> 4
      [] s = ".bmp"      -> 4
      [] s = ".svg"      -> 4
      [] s = ".jpeg"     -> 5
      [] s = ".webp"     -> 5
      [] s = ".jpeg2000" -> 9
      [] OTHER           -> 4

\* a number for each string, the bytes the digest is computed from
Code(s) ==
    CASE s = "cat"  -> 1
      [] s = "Cat"  -> 2
      [] s = "CAT"  -> 3
      [] s = "dog"  -> 4
      [] s = "DOG"  -> 5
      [] s = "pic"  -> 6
      [] s = "img"  -> 7
      [] s = "scan" -> 8
      [] s = "logo" -> 9
      [] s = "LOGO" -> 10
      [] s = "icon" -> 11
      [] s = "Icon" -> 12
      [] s = ".jpg" -> 13
      [] s = ".PNG" -> 14
      [] s = ".png" -> 15
      [] s = ".svg" -> 16
      [] s = ".gif" -> 17
      [] s = ".jpeg2000" -> 18
      [] s = "site.com"  -> 19
      [] s = "other.org" -> 20
      [] OTHER      -> 0

RECURSIVE SumCodes(_)
SumCodes(ws) == IF ws = <<>> THEN 0 ELSE Code(Head(ws)) + 3 * SumCodes(Tail(ws))

\* hashlib.md5(img_url.encode()).hexdigest()[:12]: a digest of the whole URL
\* string, truncated, so two URLs can share an identifier
ImgHash(img_url) ==
    (Code(img_url.host) + SumCodes(img_url.name) + Code(img_url.ext)) % HashSpace

\* the extension of the stored file taken from the URL as it is written
FileExt_AsWritten(img_url) ==
    LET ext == img_url.ext
    IN  IF ext = "" \/ StrLen(ext) > 5 THEN ".jpg" ELSE ext

\* the extension of the stored file: the URL's, lowercased, or .jpg when the
\* URL has none or one longer than 5 characters
FileExt(img_url) ==
    LET ext == Lower(img_url.ext)
    IN  IF ext = "" \/ StrLen(ext) > 5 THEN ".jpg" ELSE ext

\* f"img_{img_hash}{ext}"
Filename(img_url) == [hash |-> ImgHash(img_url), ext |-> FileExt(img_url)]

ImagesDir == "downloads/images"

\* os.path.join(self.images_dir, filename)
Filepath(img_url) == [dir |-> ImagesDir, file |-> Filename(img_url)]

----------------------------------------------------------------------------
(* The responses of the network to session.get(img_url) *)

MinBytes == 1024

TransportError == [kind |-> "error"]
Reply(status, size, valid) ==
    [kind |-> "reply", status |-> status, size |-> size, valid |-> valid]

Responses ==
    { TransportError,
      Reply(404, 2048, TRUE),
      Reply(200, 500, TRUE),
      Reply(200, 2048, FALSE),
      Reply(200, 1024, TRUE),
      Reply(200, 2048, TRUE) }

NoResponse == [kind |-> "none"]

\* f"{image.width}x{image.height}" of a decoded payload
Resolution(resp) == IF resp.size = 1024 THEN "32x32" ELSE "640x480"

----------------------------------------------------------------------------
(* GenericImageCrawler.download_image *)

Null == [status |-> "null"]

ExistsRecord(img_url) ==
    [status |-> "exists", path |-> Filepath(img_url), url |-> img_url,
     filename |-> Filename(img_url)]

DownloadedRecord(img_url, referer, resp) ==
    [status |-> "downloaded", path |-> Filepath(img_url), url |-> img_url,
     referer |-> referer, resolution |-> Resolution(resp),
     filename |-> Filename(img_url)]

Outcome(ret, fs, resp) == [ret |-> ret, files |-> fs, resp |-> resp]

\* download_image without the os.path.exists test: every call makes a request
DownloadImage_NoExistsCheck(fs, img_url, referer, resp) ==
    IF resp.kind = "error" \/ resp.status # 200 \/ resp.size < MinBytes \/ ~resp.valid
        THEN Outcome(Null, fs, resp)
        ELSE Outcome(DownloadedRecord(img_url, referer, resp),
                     fs \cup {Filepath(img_url)}, resp)

\* download_image writing the payload before the size test and the decoding
DownloadImage_WriteFirst(fs, img_url, referer, resp) ==
    IF Filepath(img_url) \in fs
        THEN Outcome(ExistsRecord(img_url), fs, NoResponse)
    ELSE IF resp.kind = "error" \/ resp.status # 200
        THEN Outcome(Null, fs, resp)
    ELSE IF resp.size < MinBytes \/ ~resp.valid
        THEN Outcome(Null, fs \cup {Filepath(img_url)}, resp)
    ELSE Outcome(DownloadedRecord(img_url, referer, resp),
                 fs \cup {Filepath(img_url)}, resp)

\* download_image making the identifier from the URL and the referer
DownloadImage_HashWithReferer(fs, img_url, referer, resp) ==
    LET name == [hash |-> (ImgHash(img_url) + Code(referer.host)) % HashSpace,
                 ext |-> FileExt(img_url)]
        path == [dir |-> ImagesDir, file |-> name]
    IN  IF path \in fs
            THEN Outcome([ExistsRecord(img_url) EXCEPT !.path = path,
                                                       !.filename = name],
                         fs, NoResponse)
        ELSE IF resp.kind = "error" \/ resp.status # 200
                \/ resp.size < MinBytes \/ ~resp.valid
            THEN Outcome(Null, fs, resp)
        ELSE Outcome([DownloadedRecord(img_url, referer, resp)
                          EXCEPT !.path = path, !.filename = name],
                     fs \cup {path}, resp)

\* download_image looking for the file only after the request was made
DownloadImage_ExistsAfterRequest(fs, img_url, referer, resp) ==
    IF Filepath(img_url) \in fs
        THEN Outcome(ExistsRecord(img_url), fs, resp)
    ELSE IF resp.kind = "error" \/ resp.status # 200
            \/ resp.size < MinBytes \/ ~resp.valid
        THEN Outcome(Null, fs, resp)
    ELSE Outcome(DownloadedRecord(img_url, referer, resp),
                 fs \cup {Filepath(img_url)}, resp)

\* The result of one call on the directory fs when the network would answer
\* resp: the record returned, the directory afterwards, and the response
\* received (NoResponse when no request was made).
DownloadImage(fs, img_url, referer, resp) ==
    IF Filepath(img_url) \in fs
        THEN Outcome(ExistsRecord(img_url), fs, NoResponse)
    ELSE IF resp.kind = "error"
        THEN Outcome(Null, fs, resp)
    ELSE IF resp.status # 200
        THEN Outcome(Null, fs, resp)
    ELSE IF resp.size < MinBytes
        THEN Outcome(Null, fs, resp)
    ELSE IF ~resp.valid
        THEN Outcome(Null, fs, resp)
    ELSE Outcome(DownloadedRecord(img_url, referer, resp),
                 fs \cup {Filepath(img_url)}, resp)

----------------------------------------------------------------------------
(* The store: download_image called on its own *)

NoCall == [url |-> "none"]
NoPath == [dir |-> "none"]

NoUrl == [host |-> "none"]
NoKeywordArg == "<None>"

\* no crawl is running
CrawlIdle ==
    /\ pc = "idle"
    /\ start_url = NoUrl
    /\ max_images = 0
    /\ keyword_filter = NoKeywordArg
    /\ soup = "none"
    /\ img_tags = <<>>
    /\ page_resp = NoResponse
    /\ results = <<>>
    /\ log = <<>>

NoProvider == [fail |-> "idle"]

\* no search is running
RankIdle ==
    /\ rpc = "idle"
    /\ provider = NoProvider
    /\ ranked = <<>>

NoRequest == [name |-> "none"]
NoReply == [kind |-> "none"]

\* no tool call is being handled
ServerIdle ==
    /\ spc = "idle"
    /\ request = NoRequest
    /\ web = <<>>
    /\ reply = NoReply

\* no crawlers run side by side
ConcIdle ==
    /\ proc = <<>>
    /\ content = <<>>

InitStore ==
    /\ files = {}
    /\ call = NoCall
    /\ watch \in StoreUrls
    /\ fetches = 0
    /\ stored = 0
    /\ recs = 0
    /\ afterRec = 0
    /\ recPath = NoPath
    /\ recReferer = NoUrl
    /\ CrawlIdle
    /\ RankIdle
    /\ ServerIdle
    /\ ConcIdle

\* what a call adds to the history of the watched URL
Watched(img_url, referer, d) ==
    LET fetched == d.resp # NoResponse
        got     == d.ret # Null
    IN  IF img_url # watch
        THEN UNCHANGED <<fetches, stored, recs, afterRec, recPath, recReferer>>
        ELSE /\ fetches' = IF fetched THEN fetches + 1 ELSE fetches
             /\ stored' = IF d.ret.status = "downloaded" THEN stored + 1 ELSE stored
             /\ recs' = IF got /\ recs < 2 THEN recs + 1 ELSE recs
             /\ afterRec' = IF fetched /\ recs > 0 THEN afterRec + 1 ELSE afterRec
             /\ recPath' = IF got /\ recs = 0 THEN d.ret.path ELSE recPath
             /\ recReferer' = IF got /\ recs = 0 THEN referer ELSE recReferer

Acquire(img_url, referer, resp) ==
    /\ img_url = watch => fetches < MaxFetch
    /\ LET d == DownloadImage(files, img_url, referer, resp)
       IN  /\ files' = d.files
           /\ call' = [url |-> img_url, referer |-> referer,
                       resp |-> d.resp, ret |-> d.ret]
           /\ Watched(img_url, referer, d)
    /\ UNCHANGED <<watch, crawlVars, rankVars, serverVars, concVars>>

\* The process ends and a new one is started on the same output directory:
\* the directory is kept, nothing in memory is.
Restart ==
    /\ call # NoCall
    /\ call' = NoCall
    /\ UNCHANGED <<files, storeHist, crawlVars, rankVars, serverVars, concVars>>

\* the answers to the requests for the URLs that are not watched: these
\* calls fill the directory, and either fail or store a file
FillResponses == {TransportError, Reply(200, 2048, TRUE)}

\* a call for the watched URL, with any referer and any answer; a call for
\* another URL; a restart
NextStore ==
    \/ \E r \in Referers, resp \in Responses : Acquire(watch, r, resp)
    \/ \E u \in StoreUrls \ {watch}, resp \in FillResponses :
           Acquire(u, SitePage, resp)
    \/ Restart

SpecStore == InitStore /\ [][NextStore]_vars

----------------------------------------------------------------------------
(* Claims about the store *)

\* the response passed every test of download_image
Verified(resp) ==
    /\ resp.kind = "reply"
    /\ resp.status = 200
    /\ resp.size >= MinBytes
    /\ resp.valid

\* C1 as stated: over the lifetime of the output directory a source URL is
\* requested from the network at most once.
C1_AtMostOneFetchPerUrl == fetches <= 1

\* C1, amended: a source URL has at most one request that ends in a stored
\* file, and no request at all once a call for it has returned a record; from
\* then on every call for it returns `exists`, without a request, with the
\* storage path of the first record.  (Requests that fail leave no file and
\* are repeated on the next call.)
C1_AtMostOneStoredFetch ==
    /\ stored <= 1
    /\ afterRec = 0
    /\ (call # NoCall /\ call.url = watch /\ call.ret # Null) =>
          /\ call.ret.path = recPath
          /\ recs >= 2 => (call.ret.status = "exists" /\ call.resp = NoResponse)

\* C1 witness: the watched URL was downloaded by one request and a later call
\* for it returned `exists`.
C1_Witness ==
    /\ call # NoCall /\ call.url = watch
    /\ recs = 2 /\ stored = 1 /\ fetches = 1
    /\ call.ret.status = "exists"

\* C2: a step of download_image changes the directory only by adding the file
\* at the derived path, and only when the response had status 200, at least
\* 1024 bytes and a payload that decoded and verified, and then it returns the
\* `downloaded` record; a request with any other response returns null and
\* leaves the directory as it was.
C2_WriteOnlyVerified ==
    [][ /\ files' # files =>
              /\ Verified(call'.resp)
              /\ call'.ret.status = "downloaded"
              /\ files' = files \cup {Filepath(call'.url)}
        /\ (call' # NoCall /\ call'.ret.status = "downloaded") =>
              /\ Verified(call'.resp)
              /\ call'.ret.path = Filepath(call'.url)
              /\ call'.ret.path \in files'
        /\ (call' # NoCall /\ call'.resp # NoResponse /\ ~Verified(call'.resp)) =>
              /\ call'.ret = Null
              /\ files' = files
      ]_vars

\* C2 witness: a valid image of 500 bytes was received, null was returned and
\* no file stands at the derived path.
C2_Witness ==
    /\ call # NoCall
    /\ call.resp = Reply(200, 500, TRUE)
    /\ call.ret = Null
    /\ Filepath(call.url) \notin files

\* C13: the identifier, the filename and the storage path of a record are
\* those derived from its source URL alone: every record a call returns for a
\* URL carries the filename img_<hash of the URL><extension of the URL> and
\* the path of that filename under images/, and every record returned for one
\* URL carries the path and filename of the first record returned for it,
\* whatever the referers of the calls, the records and failures before, the
\* restarts between, and the contents of the directory.
C13_SameUrlSamePath ==
    (call # NoCall /\ call.ret # Null) =>
        /\ call.ret.filename = Filename(call.url)
        /\ call.ret.path = Filepath(call.url)
        /\ call.ret.path.file = call.ret.filename
        /\ (call.url = watch /\ recs >= 1) =>
              /\ call.ret.path = recPath
              /\ call.ret.filename = recPath.file

\* C13 witness: a second record was returned for the watched URL, to a call
\* with another referer than the call that got the first, on a directory
\* that holds files of other URLs as well.
C13_Witness ==
    /\ call # NoCall /\ call.url = watch
    /\ recs = 2
    /\ call.ret # Null
    /\ recReferer # NoUrl /\ call.referer # recReferer
    /\ \E f \in files : f # Filepath(watch)

\* C16: once a call has returned a `downloaded` record for a URL, every later
\* call for that URL, with either referer, before or after a restart, returns
\* the `exists` record with the path and filename of that record, makes no
\* request, and leaves the directory as it was.
C16_ExistsIsIdempotent ==
    [][ (stored >= 1 /\ call' # NoCall /\ call'.url = watch) =>
            /\ call'.ret.status = "exists"
            /\ call'.ret.path = recPath
            /\ call'.ret.filename = recPath.file
            /\ call'.resp = NoResponse
            /\ fetches' = fetches
            /\ files' = files
      ]_vars

\* C16 witness: the watched URL was downloaded, and a call with another
\* referer, on a directory that holds another file too, got the `exists`
\* record.
C16_Witness ==
    /\ stored = 1
    /\ call # NoCall /\ call.url = watch
    /\ call.ret.status = "exists"
    /\ call.resp = NoResponse
    /\ call.referer # recReferer
    /\ Cardinality(files) >= 2

----------------------------------------------------------------------------
(* Pages.  An image element has its three source attributes, its alt text  *)
(* and, for the model, the response the network gives when the image it    *)
(* names is requested.                                                     *)

\* an attribute that is missing or empty
Absent == [host |-> "absent"]
\* a reference urljoin cannot parse, such as "http://[::1": it raises ValueError
Malformed == [host |-> "malformed"]
\* a reference relative to the page
Rel(u) == [u EXCEPT !.host = ""]

Tag(src, data_src, data_original, alt, resp) ==
    [src |-> src, data_src |-> data_src, data_original |-> data_original,
     alt |-> alt, resp |-> resp]

ImgCat    == Tag(Rel(CatJpg), Absent, Absent, <<>>, Reply(200, 2048, TRUE))
ImgCat404 == Tag(CatJpg, Absent, Absent, <<"cat">>, Reply(404, 2048, TRUE))
ImgDogAlt == Tag(DogPNG, Absent, Absent, <<" ", "A", "CAT", " ">>, Reply(200, 1024, TRUE))
ImgLazy   == Tag(Absent, Absent, CatNoExt, <<>>, Reply(200, 2048, TRUE))
ImgPic    == Tag(Absent, PicJpg, CatJpg, <<"dog">>, Reply(200, 2048, TRUE))
ImgLogo   == Tag(CatLogo, Absent, Absent, <<"cat">>, Reply(200, 2048, TRUE))
ImgSvg    == Tag(CatSvg, Absent, Absent, <<"cat">>, Reply(200, 2048, TRUE))
ImgNoSrc  == Tag(Absent, Absent, Absent, <<"cat">>, Reply(200, 2048, TRUE))
ImgBad    == Tag(Malformed, Absent, Absent, <<"cat">>, Reply(200, 2048, TRUE))
ImgIcon   == Tag(IconJpg, Absent, Absent, <<>>, Reply(200, 2048, TRUE))
ImgJp2    == Tag(Jpeg2000, Absent, Absent, <<"cat">>, Reply(200, 2048, TRUE))

Tags == {ImgCat, ImgCat404, ImgDogAlt, ImgLazy, ImgPic, ImgLogo, ImgSvg,
         ImgNoSrc, ImgBad, ImgIcon, ImgJp2}

Pages == UNION {[1..n -> Tags] : n \in 0..MaxImgs}

PageReply(status, tags) == [kind |-> "reply", status |-> status, tags |-> tags]

\* the pages served with an error status
ErrorPages == {<<>>, <<ImgCat>>}

PageResponses ==
    {TransportError}
        \cup {PageReply(404, t) : t \in ErrorPages}
        \cup {PageReply(200, t) : t \in Pages}

\* the pages crawl is called on
StartUrls == {SitePage}

Keywords == {NoKeywordArg, "", "CAT"}

----------------------------------------------------------------------------
(* GenericImageCrawler: fetch_page, is_valid_image_url and the filters of  *)
(* crawl                                                                   *)

NoSoup == [ok |-> FALSE]

\* fetch_page parsing the body of any reply, whatever its status
FetchPage_AnyReply(resp) ==
    IF resp.kind = "reply"
        THEN [ok |-> TRUE, tags |-> resp.tags]
        ELSE NoSoup

\* fetch_page: the parsed page on status 200, None on any other status and on
\* a transport error
FetchPage(resp) ==
    IF resp.kind = "reply" /\ resp.status = 200
        THEN [ok |-> TRUE, tags |-> resp.tags]
        ELSE NoSoup

\* img.get('src') or img.get('data-src') or img.get('data-original')
RawSrc(img) ==
    IF img.src # Absent THEN img.src
    ELSE IF img.data_src # Absent THEN img.data_src
    ELSE img.data_original

\* urljoin(start_url, raw_src), for a reference it can parse
Urljoin(base, raw) == IF raw.host = "" THEN [raw EXCEPT !.host = base.host] ELSE raw

RECURSIVE LStrip(_)
LStrip(ws) == IF ws # <<>> /\ Head(ws) = " " THEN LStrip(Tail(ws)) ELSE ws
RECURSIVE RStrip(_)
RStrip(ws) ==
    IF ws # <<>> /\ ws[Len(ws)] = " " THEN RStrip(SubSeq(ws, 1, Len(ws) - 1)) ELSE ws

\* img.get('alt', '').strip()
AltText(img) == RStrip(LStrip(img.alt))

\* sub in text.lower(), for a text given by its words
InWords(sub, ws) == \E i \in DOMAIN ws : Lower(ws[i]) = sub

\* sub in full_url.lower()
InUrl(sub, url) ==
    \/ Lower(url.host) = sub
    \/ InWords(sub, url.name)
    \/ Lower(url.ext) = sub

valid_exts == {".jpg", ".jpeg", ".png", ".webp", ".bmp", ".gif"}

\* is_valid_image_url comparing the extension as it is written in the URL
is_valid_image_url_AsWritten(url) ==
    LET ext == url.ext
    IN  IF ext = "" THEN TRUE ELSE ext \in valid_exts

is_valid_image_url(url) ==
    LET ext == Lower(url.ext)
    IN  IF ext = "" THEN TRUE ELSE ext \in valid_exts

\* a keyword that is None or empty switches the keyword filter off
Falsy(kw) == kw = NoKeywordArg \/ kw = ""

\* the filters with the keyword compared as it was given, not lowercased
Examine_KeywordAsGiven(img, base, kw) ==
    LET raw_src  == RawSrc(img)
        full_url == Urljoin(base, raw_src)
        alt_text == AltText(img)
    IN  IF raw_src = Absent THEN "nosrc"
        ELSE IF raw_src = Malformed THEN "raise"
        ELSE IF /\ ~Falsy(kw)
                /\ ~InUrl(kw, full_url)
                /\ ~InWords(kw, alt_text)
            THEN "keyword"
        ELSE IF ~is_valid_image_url(full_url) THEN "format"
        ELSE IF InUrl("logo", full_url) \/ InUrl("icon", full_url) THEN "logo"
        ELSE "download"

\* the filters without the third one: logo and icon URLs are downloaded
Examine_NoLogoFilter(img, base, kw) ==
    LET raw_src  == RawSrc(img)
        full_url == Urljoin(base, raw_src)
        alt_text == AltText(img)
    IN  IF raw_src = Absent THEN "nosrc"
        ELSE IF raw_src = Malformed THEN "raise"
        ELSE IF /\ ~Falsy(kw)
                /\ ~InUrl(Lower(kw), full_url)
                /\ ~InWords(Lower(kw), alt_text)
            THEN "keyword"
        ELSE IF ~is_valid_image_url(full_url) THEN "format"
        ELSE "download"

\* What one iteration of the loop does with an image element, up to the call
\* of download_image: "nosrc", "raise", "keyword", "format", "logo" (the
\* element is left) or "download".
Examine(img, base, kw) ==
    LET raw_src  == RawSrc(img)
        full_url == Urljoin(base, raw_src)
        alt_text == AltText(img)
    IN  IF raw_src = Absent THEN "nosrc"
        ELSE IF raw_src = Malformed THEN "raise"
        ELSE IF /\ ~Falsy(kw)
                /\ ~InUrl(Lower(kw), full_url)
                /\ ~InWords(Lower(kw), alt_text)
            THEN "keyword"
        ELSE IF ~is_valid_image_url(full_url) THEN "format"
        ELSE IF InUrl("logo", full_url) \/ InUrl("icon", full_url) THEN "logo"
        ELSE "download"

\* meta['alt_text'] = alt_text
WithAlt(meta, alt_text) ==
    [f \in DOMAIN meta \cup {"alt_text"} |->
        IF f = "alt_text" THEN alt_text ELSE meta[f]]

----------------------------------------------------------------------------
(* GenericImageCrawler.crawl: a call is one step *)

Init ==
    /\ files = {}
    /\ call = NoCall
    /\ watch = NoUrl
    /\ fetches = 0
    /\ stored = 0
    /\ recs = 0
    /\ afterRec = 0
    /\ recPath = NoPath
    /\ recReferer = NoUrl
    /\ CrawlIdle
    /\ RankIdle
    /\ ServerIdle
    /\ ConcIdle

\* the state of one call of crawl: the directory, count, results, whether an
\* exception has ended the call, and the history of the loop
Start(fs) == [files |-> fs, count |-> 0, results |-> <<>>, raised |-> FALSE,
              log |-> <<>>]

Continue(why) == [op |-> "continue", why |-> why]
Called(url, d) == [op |-> "download_image", url |-> url, resp |-> d.resp,
                   status |-> d.ret.status]
\* time.sleep(0.3)
SleepMs == 300
Slept == [op |-> "sleep", ms |-> SleepMs]
Raised == [op |-> "raise"]

\* the body of the loop without the sleep
Body_NoSleep(img, base, kw, s) ==
    LET v == Examine(img, base, kw)
        full_url == Urljoin(base, RawSrc(img))
        d == DownloadImage(s.files, full_url, base, img.resp)
    IN  IF v = "raise"
            THEN [s EXCEPT !.raised = TRUE, !.log = Append(@, Raised)]
        ELSE IF v # "download"
            THEN [s EXCEPT !.log = Append(@, Continue(v))]
        ELSE IF d.ret = Null
            THEN [s EXCEPT !.files = d.files,
                           !.log = Append(@, Called(full_url, d))]
        ELSE [s EXCEPT !.files = d.files,
                       !.results = Append(@, WithAlt(d.ret, AltText(img))),
                       !.count = @ + 1,
                       !.log = Append(@, Called(full_url, d))]

\* The body of the loop for one image element, after the test of count: the
\* element is left (continue), or urljoin raises, or download_image is called
\* and, when it returns a record, the record is appended and counted and the
\* crawler sleeps.
Body(img, base, kw, s) ==
    LET v == Examine(img, base, kw)
        full_url == Urljoin(base, RawSrc(img))
        d == DownloadImage(s.files, full_url, base, img.resp)
    IN  IF v = "raise"
            THEN [s EXCEPT !.raised = TRUE, !.log = Append(@, Raised)]
        ELSE IF v # "download"
            THEN [s EXCEPT !.log = Append(@, Continue(v))]
        ELSE IF d.ret = Null
            THEN [s EXCEPT !.files = d.files,
                           !.log = Append(@, Called(full_url, d))]
        ELSE [s EXCEPT !.files = d.files,
                       !.results = Append(@, WithAlt(d.ret, AltText(img))),
                       !.count = @ + 1,
                       !.log = @ \o <<Called(full_url, d), Slept>>]

\* the loop is left: an exception, no element left, or count >= max_images
LoopEnds(tags, i, max, s) == s.raised \/ i > Len(tags) \/ s.count >= max

\* for img in img_tags, from element i on
RECURSIVE Loop(_, _, _, _, _, _)
Loop(tags, i, base, max, kw, s) ==
    IF LoopEnds(tags, i, max, s)
        THEN s
        ELSE Loop(tags, i + 1, base, max, kw, Body(tags[i], base, kw, s))

\* crawl(start_url, max_images, keyword_filter), when the page request is
\* answered by resp: the whole call
Crawl(url, max, kw, resp) ==
    /\ pc = "idle"
    /\ start_url' = url
    /\ max_images' = max
    /\ keyword_filter' = kw
    /\ page_resp' = IF resp.kind = "reply"
                     THEN [kind |-> "reply", status |-> resp.status]
                     ELSE resp
    /\ LET page == FetchPage(resp)
       IN  IF page = NoSoup
           THEN /\ soup' = "None"
                /\ img_tags' = <<>>
                /\ results' = <<>>
                /\ log' = <<>>
                /\ pc' = "returned"
                /\ UNCHANGED files
           ELSE \E s \in {Loop(page.tags, 1, url, max, kw, Start(files))} :
                    /\ soup' = "page"
                    /\ img_tags' = page.tags
                    /\ results' = IF s.raised THEN <<>> ELSE s.results
                    /\ log' = s.log
                    /\ pc' = IF s.raised THEN "raised" ELSE "returned"
                    /\ files' = s.files
    /\ UNCHANGED <<call, storeHist, rankVars, serverVars, concVars>>

\* the caller has the result (or the exception); the crawler is ready for the
\* next call
Done ==
    /\ pc \in {"returned", "raised"}
    /\ pc' = "idle"
    /\ start_url' = NoUrl
    /\ max_images' = 0
    /\ keyword_filter' = NoKeywordArg
    /\ soup' = "none"
    /\ img_tags' = <<>>
    /\ page_resp' = NoResponse
    /\ results' = <<>>
    /\ log' = <<>>
    /\ UNCHANGED <<files, call, storeHist, rankVars, serverVars, concVars>>

\* a call of crawl, with any arguments, on a page answered in any way
CrawlCall ==
    /\ pc = "idle"
    /\ \E url \in StartUrls, max \in 1..MaxCap, kw \in Keywords,
          resp \in PageResponses : Crawl(url, max, kw, resp)

Next ==
    \/ CrawlCall
    \/ Done

Spec == Init /\ [][Next]_vars

----------------------------------------------------------------------------
(* Claims about crawl *)

Ended == pc \in {"returned", "raised"}

IsCall(e) == e.op = "download_image"
IsSuccess(e) == e.op = "download_image" /\ e.status # "null"

\* the records download_image had returned before the event at place i
SuccessesBefore(i) == Cardinality({j \in 1..(i - 1) : IsSuccess(log[j])})

\* an element that passes the filters and whose image the network serves
\* verified: download_image returns a record for it
Acquirable(img) ==
    /\ Examine(img, start_url, keyword_filter) = "download"
    /\ Verified(img.resp)

NumAcquirable == Cardinality({i \in DOMAIN img_tags : Acquirable(img_tags[i])})

\* C3: crawl returns at most max_images records, makes no download_image call
\* once max_images calls have succeeded, and, when at least max_images
\* elements of the page are acquirable, returns exactly max_images records,
\* each `downloaded` or `exists`.
C3_CapExactlyReached ==
    (Ended /\ soup = "page") =>
        /\ Len(results) <= max_images
        /\ \A i \in DOMAIN log : IsCall(log[i]) => SuccessesBefore(i) < max_images
        /\ \A i \in DOMAIN results : results[i].status \in {"downloaded", "exists"}
        /\ NumAcquirable >= max_images =>
              (pc = "returned" /\ Len(results) = max_images)

\* every element of the page was handled: left, or passed to download_image
AllHandled ==
    Cardinality({i \in DOMAIN log : log[i].op \in {"continue", "download_image"}})
        = Len(img_tags)

\* C4: no failure on one image element aborts crawl: it returns normally, having
\* handled every element up to the cap, with no record for an element that
\* failed.
C4_FailureIsolated ==
    (Ended /\ soup = "page") =>
        /\ pc = "returned"
        /\ AllHandled \/ Len(results) = max_images
        /\ Len(results) = Cardinality({i \in DOMAIN log : IsSuccess(log[i])})

PageFetchFailed ==
    ~(page_resp.kind = "reply" /\ page_resp.status = 200)

\* C5: when the page request is answered by another status than 200, or by a
\* transport error, crawl returns the empty list without raising, calls
\* download_image for nothing, does not sleep, and leaves the directory as it
\* was.
C5_PageFailureReturnsEmpty ==
    [][ (pc = "idle" /\ pc' # "idle" /\ PageFetchFailed') =>
            /\ pc' = "returned"
            /\ results' = <<>>
            /\ log' = <<>>
            /\ files' = files
      ]_vars

\* C5 witness: crawl has returned from a page answered with status 404.
C5_Witness ==
    /\ pc = "returned"
    /\ page_resp.kind = "reply" /\ page_resp.status = 404
    /\ results = <<>>

\* C9: a download_image call that returned a record is followed at once by the
\* 300 ms sleep, before any other call, and a sleep is made nowhere else: not
\* after an element that was filtered out, and not after a call that returned
\* null.
C9_SleepAfterSuccessOnly ==
    \A i \in DOMAIN log :
        /\ IsSuccess(log[i]) =>
              (i < Len(log) /\ log[i + 1].op = "sleep" /\ log[i + 1].ms = 300)
        /\ log[i].op = "sleep" => (i > 1 /\ IsSuccess(log[i - 1]))

\* C9 witness: crawl has returned after two calls that succeeded, with the
\* sleep, and nothing else, between them.
C9_Witness ==
    /\ pc = "returned"
    /\ \E i, j \in DOMAIN log :
          /\ i + 1 < j
          /\ IsSuccess(log[i]) /\ IsSuccess(log[j])
          /\ \A k \in (i + 1)..(j - 1) : log[k].op = "sleep"

\* C10: the records crawl returns have pairwise distinct source URLs and
\* pairwise distinct storage paths.
C10_DistinctRecords ==
    \A i, j \in DOMAIN results :
        i # j => (results[i].url # results[j].url /\ results[i].path # results[j].path)

\* what the loop did with each image element it reached, in the order of the
\* page: the history without the sleeps
Handled == SelectSeq(log, LAMBDA e : e.op # "sleep")

\* the element has a source that urljoin resolves
Resolves(img) == RawSrc(img) # Absent /\ RawSrc(img) # Malformed

\* urljoin(start_url, raw_src) of an element of the page crawled
FullUrl(img) == Urljoin(start_url, RawSrc(img))

HasLogoOrIcon(url) == InUrl("logo", url) \/ InUrl("icon", url)

\* C11: an image element whose resolved URL, lowercased, contains `logo` or
\* `icon` is never passed to download_image: the loop leaves it, whatever the
\* keyword, the alt text and the extension, and no call of download_image is
\* made for such a URL.
C11_LogoIconNeverAcquired ==
    /\ \A i \in DOMAIN log : IsCall(log[i]) => ~HasLogoOrIcon(log[i].url)
    /\ \A i \in DOMAIN Handled :
          (Resolves(img_tags[i]) /\ HasLogoOrIcon(FullUrl(img_tags[i]))) =>
              Handled[i].op = "continue"

\* C11 witness: crawl, called without a keyword, has returned from a page
\* with the element .../cat-LOGO.png and one with .../Icon-cat.jpg, and left
\* both at the logo filter.
C11_Witness ==
    /\ pc = "returned"
    /\ keyword_filter = NoKeywordArg
    /\ img_tags = <<ImgLogo, ImgIcon>>
    /\ Handled = <<Continue("logo"), Continue("logo")>>

\* the keyword filter lets the element through: no keyword was given, or the
\* keyword, lowercased, is in the lowercased URL or the lowercased alt text
KeywordPasses(img) ==
    \/ keyword_filter = NoKeywordArg
    \/ keyword_filter = ""
    \/ InUrl(Lower(keyword_filter), FullUrl(img))
    \/ InWords(Lower(keyword_filter), AltText(img))

\* the extension of the URL's path is one of the six, in any letter case
Supported(url) == Lower(url.ext) \in {".jpg", ".jpeg", ".png", ".webp", ".bmp", ".gif"}

\* C12: of the elements that pass the keyword filter, one whose URL path has
\* an extension outside jpg, jpeg, png, webp, bmp, gif (such as .svg) is left
\* at the format filter and never passed to download_image, also when it would
\* pass the logo filter; one whose extension is one of the six, in any letter
\* case, and one without extension are not left at the format filter.
C12_ExtensionGate ==
    /\ \A i \in DOMAIN log :
          IsCall(log[i]) => (Supported(log[i].url) \/ log[i].url.ext = "")
    /\ \A i \in DOMAIN Handled :
          (Resolves(img_tags[i]) /\ KeywordPasses(img_tags[i])) =>
              LET url == FullUrl(img_tags[i])
              IN  IF Supported(url) \/ url.ext = ""
                  THEN Handled[i] # Continue("format")
                  ELSE Handled[i] = Continue("format")

\* C12 witness: crawl has returned from a page with .../cat.svg, left at the
\* format filter though neither the keyword nor the logo filter rejects it,
\* and .../DOG.PNG, passed to download_image.
C12_Witness ==
    /\ pc = "returned"
    /\ keyword_filter = "CAT"
    /\ img_tags = <<ImgSvg, ImgDogAlt>>
    /\ ~HasLogoOrIcon(FullUrl(ImgSvg))
    /\ Handled[1] = Continue("format")
    /\ Handled[2].op = "download_image" /\ Handled[2].url = DogPNG

\* C12 witness for the URL without extension: .../Cat-img was passed to
\* download_image.
C12_WitnessNoExt ==
    /\ pc = "returned"
    /\ \E i \in DOMAIN log : IsCall(log[i]) /\ log[i].url = CatNoExt

\* C17: an element with a resolved URL is left at the keyword filter exactly
\* when a keyword was given (not None, not empty) and the keyword, lowercased,
\* is neither in the lowercased URL nor in the lowercased alt text; every
\* other element goes on to the format filter.
C17_KeywordFilter ==
    \A i \in DOMAIN Handled :
        Resolves(img_tags[i]) =>
            /\ Handled[i] = Continue("keyword") <=> ~KeywordPasses(img_tags[i])
            /\ KeywordPasses(img_tags[i]) =>
                  \/ Handled[i] \in {Continue("format"), Continue("logo")}
                  \/ Handled[i].op = "download_image"

\* C17 witness: with the keyword CAT, .../pic.jpg with alt text `dog` was left
\* at the keyword filter and .../DOG.PNG with alt text ` A CAT ` went on to
\* download_image.
C17_Witness ==
    /\ pc = "returned"
    /\ keyword_filter = "CAT"
    /\ img_tags = <<ImgPic, ImgDogAlt>>
    /\ Handled[1] = Continue("keyword")
    /\ Handled[2].op = "download_image"

\* C17 witness without keyword: with the empty keyword .../pic.jpg went on to
\* download_image.
C17_WitnessNoKeyword ==
    /\ pc = "returned"
    /\ keyword_filter = ""
    /\ img_tags = <<ImgPic>>
    /\ Handled[1].op = "download_image"

\* C15: every record crawl returns has status downloaded or exists and the
\* fields path, url, referer, filename and alt_text; resolution is the only
\* other field, and the only one a record may lack.
C15_RecordFields ==
    \A i \in DOMAIN results :
        /\ results[i].status \in {"downloaded", "exists"}
        /\ {"status", "path", "url", "referer", "filename", "alt_text"}
               \subseteq DOMAIN results[i]
        /\ DOMAIN results[i] \subseteq
               {"status", "path", "url", "referer", "filename", "alt_text",
                "resolution"}

NumSleeps == Cardinality({i \in DOMAIN log : log[i].op = "sleep"})

\* C18: when a call of crawl has ended, the sleeps it made, each of 300 ms,
\* are as many as the records it returned: one after every download_image
\* call that returned a record, `downloaded` or `exists`.
C18_SleepsEqualResults ==
    Ended =>
        /\ NumSleeps = Len(results)
        /\ \A i \in DOMAIN log : log[i].op = "sleep" => log[i].ms = 300

\* the extension a file made from this URL is to have
ExpectedExt(url) == IF url.ext = "" THEN ".jpg" ELSE Lower(url.ext)

\* C20: every file a call of crawl creates is in images/ and is named
\* img_<identifier><ext>, with the identifier in the identifier space and ext
\* one of .jpg, .jpeg, .png, .webp, .bmp, .gif in lowercase; and it was made
\* for a URL that download_image was called with, whose extension is one of
\* the six, and is the file's in lowercase, or is missing, and then the
\* file's is .jpg.
C20_FilenameFormat ==
    [][ \A f \in files' \ files :
            /\ f.dir = ImagesDir
            /\ f.file.hash \in 0..(HashSpace - 1)
            /\ f.file.ext \in {".jpg", ".jpeg", ".png", ".webp", ".bmp", ".gif"}
            /\ \E i \in DOMAIN log' :
                  /\ IsCall(log'[i]) /\ log'[i].status = "downloaded"
                  /\ Supported(log'[i].url) \/ log'[i].url.ext = ""
                  /\ f.file.hash = ImgHash(log'[i].url)
                  /\ f.file.ext = ExpectedExt(log'[i].url)
      ]_vars

\* C20 witness: crawl has returned after it created a .png file for
\* .../DOG.PNG and a .jpg file for .../Cat-img, which has no extension.
C20_Witness ==
    /\ pc = "returned"
    /\ Len(results) = 2
    /\ results[1].status = "downloaded" /\ results[1].url = DogPNG
    /\ results[1].filename.ext = ".png"
    /\ results[2].status = "downloaded" /\ results[2].url = CatNoExt
    /\ results[2].filename.ext = ".jpg"
    /\ {results[1].path, results[2].path} \subseteq files

----------------------------------------------------------------------------
(* UniversalRanker.  A search result has a title and an href; an href is   *)
(* given by what tldextract.extract makes of it: subdomain, domain, suffix.*)

Href(sub, domain, suffix) == [sub |-> sub, domain |-> domain, suffix |-> suffix]
\* a result without the key 'href'
NoHref == [sub |-> "absent"]
\* an href that is no string (null): tldextract.extract raises on it
BadHref == [sub |-> "null"]

Result(title, href) == [title |-> title, href |-> href]

RPinterest == Result("pins", Href("", "pinterest", "com"))
RPinUK     == Result("pins uk", Href("www", "Pinterest", "co.uk"))
RUniv      == Result("univ", Href("", "univ", "edu"))
RNews      == Result("news", Href("", "news", "com"))
RBlog      == Result("blog", Href("pinterest", "blog", "org"))
RNoHref    == Result("bare", NoHref)
RBad       == Result("bad", BadHref)

RawResults == {RPinterest, RPinUK, RUniv, RNews, RBlog, RNoHref, RBad}

BLOCK_DOMAINS == {"pinterest", "facebook", "twitter", "instagram", "tiktok"}

LowerDomain(d) == IF d = "Pinterest" THEN "pinterest" ELSE d

\* tldextract.extract(result.get('href', ''))
Extract(result) ==
    IF result.href = NoHref THEN Href("", "", "") ELSE result.href

\* calculate_score raises on this result
ScoreRaises(result) == result.href = BadHref

\* calculate_score comparing the domain with the blocklist as written
calculate_score_CaseSensitive(result) ==
    LET extracted == Extract(result)
    IN  IF extracted.domain \in BLOCK_DOMAINS THEN 0 - 1000
        ELSE IF extracted.suffix = "edu" THEN 50 + 20
        ELSE 50

calculate_score(result) ==
    LET extracted == Extract(result)
        domain    == LowerDomain(extracted.domain)
    IN  IF domain \in BLOCK_DOMAINS THEN 0 - 1000
        ELSE IF extracted.suffix = "edu" THEN 50 + 20
        ELSE 50

\* r['score'] = score
WithScore(r, score) ==
    [f \in DOMAIN r \cup {"score"} |-> IF f = "score" THEN score ELSE r[f]]

\* the for loop over raw_results, from result i on: acc.results is the list
\* built so far, acc.raised whether calculate_score has raised
RECURSIVE ScoreLoop(_, _, _)
ScoreLoop(raw, i, acc) ==
    IF acc.raised \/ i > Len(raw) THEN acc
    ELSE IF ScoreRaises(raw[i]) THEN [acc EXCEPT !.raised = TRUE]
    ELSE LET score == calculate_score(raw[i])
         IN  ScoreLoop(raw, i + 1,
                 IF score > 0
                 THEN [acc EXCEPT !.results = Append(@, WithScore(raw[i], score))]
                 ELSE acc)

\* the place of x in a list sorted by descending score, with x before the
\* entries of its own score
InsertDesc_BeforeEqual(x, sorted) ==
    LET before == {k \in 0..Len(sorted) :
                      \A j \in 1..k : sorted[j].score > x.score}
        k == CHOOSE m \in before : \A n \in before : n <= m
    IN  SubSeq(sorted, 1, k) \o <<x>> \o SubSeq(sorted, k + 1, Len(sorted))

\* the place of x in a list sorted by descending score: after every entry
\* whose score is at least its own
InsertDesc(x, sorted) ==
    LET before == {k \in 0..Len(sorted) :
                      \A j \in 1..k : sorted[j].score >= x.score}
        k == CHOOSE m \in before : \A n \in before : n <= m
    IN  SubSeq(sorted, 1, k) \o <<x>> \o SubSeq(sorted, k + 1, Len(sorted))

\* sorted(results, key=lambda x: x['score'], reverse=True): a stable sort,
\* here by insertion from the left
RECURSIVE SortedDesc(_, _)
SortedDesc(rs, sorted) ==
    IF rs = <<>> THEN sorted
    ELSE SortedDesc(Tail(rs), InsertDesc(Head(rs), sorted))

\* search_and_rank returning what it had built when the exception came
search_and_rank_Partial(p) ==
    IF p.fail # "none" THEN <<>>
    ELSE SortedDesc(ScoreLoop(p.raw, 1, [results |-> <<>>, raised |-> FALSE]).results,
                    <<>>)

\* search_and_rank, when the provider behaves as p says: it fails on being
\* opened ("open"), or while the results are read ("iter"), or returns p.raw
search_and_rank(p) ==
    IF p.fail # "none" THEN <<>>
    ELSE LET acc == ScoreLoop(p.raw, 1, [results |-> <<>>, raised |-> FALSE])
         IN  IF acc.raised THEN <<>> ELSE SortedDesc(acc.results, <<>>)

RawLists == UNION {[1..n -> RawResults] : n \in 0..MaxRaw}

Providers ==
    {[fail |-> f, raw |-> <<>>] : f \in {"open", "iter"}}
        \cup {[fail |-> "none", raw |-> raw] : raw \in RawLists}

InitRank ==
    /\ files = {}
    /\ call = NoCall
    /\ watch = NoUrl
    /\ fetches = 0
    /\ stored = 0
    /\ recs = 0
    /\ afterRec = 0
    /\ recPath = NoPath
    /\ recReferer = NoUrl
    /\ CrawlIdle
    /\ RankIdle
    /\ ServerIdle
    /\ ConcIdle

Search(p) ==
    /\ provider' = p
    /\ ranked' = search_and_rank(p)
    /\ rpc' = "returned"
    /\ UNCHANGED <<files, call, storeHist, crawlVars, serverVars, concVars>>

SearchCall ==
    /\ rpc = "idle"
    /\ \E p \in Providers : Search(p)

RankDone ==
    /\ rpc = "returned"
    /\ rpc' = "idle"
    /\ provider' = NoProvider
    /\ ranked' = <<>>
    /\ UNCHANGED <<files, call, storeHist, crawlVars, serverVars, concVars>>

NextRank ==
    \/ SearchCall
    \/ RankDone

SpecRank == InitRank /\ [][NextRank]_vars

----------------------------------------------------------------------------
(* Claims about the ranker *)

Returned == rpc = "returned"

\* the entry without the score search_and_rank gave it
Unscored(r) == [f \in DOMAIN r \ {"score"} |-> r[f]]

RECURSIVE UnscoredAll(_)
UnscoredAll(rs) ==
    IF rs = <<>> THEN <<>> ELSE <<Unscored(Head(rs))>> \o UnscoredAll(Tail(rs))

Scores == {ranked[i].score : i \in DOMAIN ranked}

\* C6: the returned list is in descending order of score (no entry has a lower
\* score than a later one), and the entries of one score stand in the order
\* the provider returned them in.
C6_DescendingStable ==
    Returned =>
        /\ \A i, j \in DOMAIN ranked : i < j => ranked[i].score >= ranked[j].score
        /\ \A v \in Scores :
              UnscoredAll(SelectSeq(ranked, LAMBDA r : r.score = v))
                  = SelectSeq(provider.raw,
                              LAMBDA r : \E i \in DOMAIN ranked :
                                  ranked[i] = WithScore(r, v))

\* C6 witness: a list was returned in which an entry of score 70 stands before
\* two different entries of score 50, and the provider had returned one of
\* the latter first.
C6_Witness ==
    /\ Returned
    /\ Len(ranked) = 3
    /\ ranked[1].score = 70
    /\ ranked[2].score = 50 /\ ranked[3].score = 50
    /\ ranked[2] # ranked[3]
    /\ Unscored(ranked[2]) = provider.raw[1]

Blocked(r) ==
    /\ r.href # NoHref
    /\ LowerDomain(r.href.domain) \in BLOCK_DOMAINS

\* C7: every returned entry has a score above 0 and is one of the provider's
\* results; no entry has a blocklisted domain; an entry whose suffix is edu
\* has score 70 and every other entry 50; and for the results pinterest.com,
\* univ.edu, news.com the list is univ.edu (70), news.com (50).
C7_ScoresAndExclusion ==
    Returned =>
        /\ \A i \in DOMAIN ranked :
              /\ ranked[i].score > 0
              /\ \E k \in DOMAIN provider.raw : provider.raw[k] = Unscored(ranked[i])
              /\ ~Blocked(ranked[i])
              /\ ranked[i].score =
                    IF ranked[i].href # NoHref /\ ranked[i].href.suffix = "edu"
                    THEN 70 ELSE 50
        /\ (provider.fail = "none" /\ provider.raw = <<RPinterest, RUniv, RNews>>) =>
              ranked = <<WithScore(RUniv, 70), WithScore(RNews, 50)>>

\* C7 witness: search_and_rank has returned for pinterest.com, univ.edu,
\* news.com.
C7_Witness ==
    /\ Returned
    /\ provider.fail = "none"
    /\ provider.raw = <<RPinterest, RUniv, RNews>>
    /\ Len(ranked) = 2

\* the search failed: at the provider, or in calculate_score
SearchFailed ==
    \/ provider.fail \in {"open", "iter"}
    \/ \E i \in DOMAIN provider.raw : ScoreRaises(provider.raw[i])

\* C8: when the search fails (on opening the provider, on reading its
\* results, or in scoring one of them) search_and_rank returns the empty
\* list: nothing is raised and no part of a ranking is returned.
C8_FailureReturnsEmpty ==
    (rpc # "idle" /\ SearchFailed) => (rpc = "returned" /\ ranked = <<>>)

\* C8 witness: the second result made calculate_score raise after the first
\* had been scored and kept, and the empty list was returned.
C8_Witness ==
    /\ Returned
    /\ provider.fail = "none"
    /\ Len(provider.raw) >= 2
    /\ provider.raw[1] = RNews
    /\ ScoreRaises(provider.raw[2])
    /\ ranked = <<>>

----------------------------------------------------------------------------
(* handle_call_tool (server.py): the ranker is asked for sites, the first  *)
(* max_sites of them are crawled one after the other, and a report is      *)
(* returned.                                                               *)

\* the most sites a tool call asks for
MaxSites == 2

ToolName == "auto_crawl_images"
ToolNames == {ToolName, "other_tool"}

\* arguments is a dict, or None
NoArguments == [given |-> FALSE]
Arguments(query, max_sites_arg, count_per_site) ==
    [given |-> TRUE, query |-> query, max_sites |-> max_sites_arg,
     count_per_site |-> count_per_site]

Queries == {"", "CAT pics"}

ArgumentSets ==
    {Arguments(q, m, c) : q \in Queries, m \in 1..MaxSites, c \in 1..MaxCap}

\* query.split()[0] raises IndexError when the query has no word
SplitRaises(query) == query = ""
FirstWord(query) == IF query = "CAT pics" THEN "CAT" ELSE query

\* the results the provider returns to the server's ranker
ServerResults == {RUniv, RNews, RNoHref}
ServerLists == UNION {[1..n -> ServerResults] : n \in 0..MaxRaw}
ServerProviders ==
    {[fail |-> "open", raw |-> <<>>]}
        \cup {[fail |-> "none", raw |-> raw] : raw \in ServerLists}

\* the answers of the sites to the page request of crawl
SitePages ==
    { TransportError,
      PageReply(200, <<ImgCat, ImgDogAlt>>),
      PageReply(200, <<ImgCat, ImgBad>>) }

\* the host of an href
HostOf(href) ==
    CASE href.domain = "univ" -> "univ.edu"
      [] href.domain = "news" -> "news.com"
      [] OTHER                -> "site.com"

\* site['href'], as the URL crawl is called with
SiteUrl(href) == Url(HostOf(href), <<>>, "")

\* crawl(start_url, max_images, keyword_filter) on the directory fs, when the
\* page request is answered by resp: the results, the directory afterwards,
\* and whether an exception ended the call
crawl(fs, url, max, kw, resp) ==
    LET page == FetchPage(resp)
    IN  IF page = NoSoup
        THEN Start(fs)
        ELSE Loop(page.tags, 1, url, max, kw, Start(fs))

Min(a, b) == IF a < b THEN a ELSE b

\* the two lines of the report for one site: the title, and how the crawl went
Section(title, line, num, names) ==
    [title |-> title, line |-> line, num |-> num, names |-> names]

\* [os.path.basename(r['path']) for r in results[:2]]
SampleNames(rs) == [i \in 1..Min(2, Len(rs)) |-> rs[i].path.file]

NoSites == [kind |-> "text", text |-> "no sites found"]
Report(query, sections, total) ==
    [kind |-> "text", text |-> "report", query |-> query, sections |-> sections,
     total |-> total, dir |-> ImagesDir]

\* the section of a site whose crawl ended as c says
SectionOf(site, c) ==
    IF c.raised THEN Section(site.title, "error", 0, <<>>)
    ELSE IF Len(c.results) > 0
        THEN Section(site.title, "downloaded", Len(c.results), SampleNames(c.results))
    ELSE Section(site.title, "none", 0, <<>>)

\* for i, site in enumerate(ranked_sites[:max_sites]), from site i on.  The
\* lookup site['href'] is made before the try statement; query.split()[0] and
\* crawl are inside it.
RECURSIVE SiteLoop(_, _, _, _, _, _)
SiteLoop(sites, i, pages, count, query, acc) ==
    IF acc.raised \/ i > Len(sites) THEN acc
    ELSE IF sites[i].href = NoHref THEN [acc EXCEPT !.raised = TRUE]
    ELSE LET c == IF SplitRaises(query)
                  THEN [Start(acc.files) EXCEPT !.raised = TRUE]
                  ELSE crawl(acc.files, SiteUrl(sites[i].href), count,
                             FirstWord(query), pages[i])
         IN  SiteLoop(sites, i + 1, pages, count, query,
                 [acc EXCEPT !.files = c.files,
                             !.sections = Append(@, SectionOf(sites[i], c)),
                             !.total = IF c.raised THEN @ ELSE @ + Len(c.results)])

\* ranked_sites[:max_sites]
FirstSites(ranked_sites, max_sites_arg) ==
    SubSeq(ranked_sites, 1, Min(max_sites_arg, Len(ranked_sites)))

\* the sites a call with these arguments has to crawl
NumSites(arguments, p) == Len(FirstSites(search_and_rank(p), arguments.max_sites))

\* handle_call_tool(name, arguments), when the provider behaves as p says and
\* the sites answer as pages says: the whole call
HandleCallTool(name, arguments, p, pages) ==
    /\ spc = "idle"
    /\ request' = [name |-> name, arguments |-> arguments]
    /\ IF name # ToolName \/ arguments = NoArguments
       THEN \* ValueError for the unknown tool; AttributeError on None.get
            /\ spc' = "raised"
            /\ reply' = NoReply
            /\ web' = <<>>
            /\ UNCHANGED <<files, provider, ranked>>
       ELSE \E ranked_sites \in {search_and_rank(p)} :
            /\ provider' = p
            /\ ranked' = ranked_sites
            /\ IF ranked_sites = <<>>
               THEN /\ spc' = "returned"
                    /\ reply' = NoSites
                    /\ web' = <<>>
                    /\ UNCHANGED files
               ELSE \E acc \in {SiteLoop(FirstSites(ranked_sites, arguments.max_sites),
                                         1, pages, arguments.count_per_site,
                                         arguments.query,
                                         [files |-> files, sections |-> <<>>,
                                          total |-> 0, raised |-> FALSE])} :
                    /\ web' = pages
                    /\ files' = acc.files
                    /\ spc' = IF acc.raised THEN "raised" ELSE "returned"
                    /\ reply' = IF acc.raised THEN NoReply
                                ELSE Report(arguments.query, acc.sections, acc.total)
    /\ UNCHANGED <<call, storeHist, crawlVars, rpc, concVars>>

\* the caller has the reply (or the exception)
ServerDone ==
    /\ spc \in {"returned", "raised"}
    /\ spc' = "idle"
    /\ request' = NoRequest
    /\ web' = <<>>
    /\ reply' = NoReply
    /\ provider' = NoProvider
    /\ ranked' = <<>>
    /\ UNCHANGED <<files, call, storeHist, crawlVars, rpc, concVars>>

\* a tool call: another tool, the tool without arguments, or the tool with
\* arguments, the provider and the sites behaving in any way
ServerCall ==
    /\ spc = "idle"
    /\ \/ \E a \in ArgumentSets : HandleCallTool("other_tool", a, NoProvider, <<>>)
       \/ HandleCallTool(ToolName, NoArguments, NoProvider, <<>>)
       \/ \E a \in ArgumentSets, p \in ServerProviders :
              \E pages \in [1..NumSites(a, p) -> SitePages] :
                  HandleCallTool(ToolName, a, p, pages)

InitServer ==
    /\ files = {}
    /\ call = NoCall
    /\ watch = NoUrl
    /\ fetches = 0
    /\ stored = 0
    /\ recs = 0
    /\ afterRec = 0
    /\ recPath = NoPath
    /\ recReferer = NoUrl
    /\ CrawlIdle
    /\ RankIdle
    /\ ServerIdle
    /\ ConcIdle

NextServer ==
    \/ ServerCall
    \/ ServerDone

SpecServer == InitServer /\ [][NextServer]_vars

----------------------------------------------------------------------------
(* Claims about handle_call_tool *)

RECURSIVE SumNums(_)
SumNums(sections) ==
    IF sections = <<>> THEN 0 ELSE Head(sections).num + SumNums(Tail(sections))

\* C14: a call naming the tool always returns a text and never raises: the
\* `no sites found` text when the ranking is empty, and otherwise a report
\* with one section for each of the first max_sites ranked sites, whatever
\* happened in the crawls of the others, and the total of the sections'
\* counts; a call naming another tool raises.
C14_AlwaysReports ==
    spc # "idle" =>
        IF request.name = ToolName
        THEN /\ spc = "returned"
             /\ reply.kind = "text"
             /\ ranked = <<>> => reply = NoSites
             /\ ranked # <<>> =>
                   /\ reply.text = "report"
                   /\ Len(reply.sections) =
                         Min(request.arguments.max_sites, Len(ranked))
                   /\ reply.total = SumNums(reply.sections)
        ELSE spc = "raised"

----------------------------------------------------------------------------
(* Crawlers running download_image side by side on one output directory,   *)
(* as threads or as processes.  A step is one statement of download_image  *)
(* that reads or changes something the crawlers share: the test            *)
(* os.path.exists, the request, open(filepath, 'wb'), f.write(content) and *)
(* the close at the end of the with statement.                             *)

\* the crawlers
NumProcs == 2
Procs == 1..NumProcs

ConcUrls == {CatJpg, DogPNG}
ConcPaths == {Filepath(u) : u \in ConcUrls}

\* the answers to the image request: each URL serves one payload
ConcResponses == {TransportError, Reply(404, 2048, TRUE), Reply(200, 2048, TRUE)}

\* what a path holds: no file, a file of 0 bytes, a file with the first part
\* of the payload, a file with the whole payload
Holds == {"absent", "empty", "partial", "complete"}

\* f.write(content) through Python's buffer: what the file may hold once the
\* call has returned, when it held c before: nothing more, a part, or all
AfterWrite(c) ==
    CASE c = "empty"    -> {"empty", "partial", "complete"}
      [] c = "partial"  -> {"partial", "complete"}
      [] OTHER          -> {"complete"}

IdleProc == [pc |-> "idle"]

Running(at, img_url, referer, resp) ==
    [pc |-> at, url |-> img_url, referer |-> referer, resp |-> resp]

\* download_image has returned ret; saw is what the file at the derived path
\* held when os.path.exists was evaluated
Finished(img_url, referer, resp, ret, saw) ==
    [pc |-> "done", url |-> img_url, referer |-> referer, resp |-> resp,
     ret |-> ret, saw |-> saw]

InitConc ==
    /\ files = {}
    /\ call = NoCall
    /\ watch = NoUrl
    /\ fetches = 0
    /\ stored = 0
    /\ recs = 0
    /\ afterRec = 0
    /\ recPath = NoPath
    /\ recReferer = NoUrl
    /\ CrawlIdle
    /\ RankIdle
    /\ ServerIdle
    /\ proc = [p \in Procs |-> IdleProc]
    /\ content = [f \in ConcPaths |-> "absent"]

ConcUnchanged == UNCHANGED <<call, storeHist, crawlVars, rankVars, serverVars>>

\* download_image(img_url, referer) is called: the identifier, the filename
\* and the path are derived
Begin(p, img_url, referer) ==
    /\ proc[p].pc = "idle"
    /\ proc' = [proc EXCEPT ![p] = Running("exists", img_url, referer, NoResponse)]
    /\ UNCHANGED <<files, content>>
    /\ ConcUnchanged

\* if os.path.exists(filepath): return the `exists` record
CheckExists(p) ==
    /\ proc[p].pc = "exists"
    /\ LET me == proc[p]
           saw == content[Filepath(me.url)]
       IN  proc' = [proc EXCEPT ![p] =
                IF Filepath(me.url) \in files
                THEN Finished(me.url, me.referer, NoResponse,
                              ExistsRecord(me.url), saw)
                ELSE Running("get", me.url, me.referer, NoResponse)]
    /\ UNCHANGED <<files, content>>
    /\ ConcUnchanged

\* r = self.session.get(...) and the tests of the response, the decoding
\* included: None is returned unless the response passes them all
Get(p, resp) ==
    /\ proc[p].pc = "get"
    /\ LET me == proc[p]
       IN  proc' = [proc EXCEPT ![p] =
                IF Verified(resp)
                THEN Running("open", me.url, me.referer, resp)
                ELSE Finished(me.url, me.referer, resp, Null, "absent")]
    /\ UNCHANGED <<files, content>>
    /\ ConcUnchanged

\* open(filepath, 'wb'): the file is created, or emptied when it is there
Open(p) ==
    /\ proc[p].pc = "open"
    /\ LET me == proc[p]
       IN  /\ files' = files \cup {Filepath(me.url)}
           /\ content' = [content EXCEPT ![Filepath(me.url)] = "empty"]
           /\ proc' = [proc EXCEPT ![p] = Running("write", me.url, me.referer, me.resp)]
    /\ ConcUnchanged

\* f.write(content)
Write(p) ==
    /\ proc[p].pc = "write"
    /\ LET me == proc[p]
       IN  /\ \E c \in AfterWrite(content[Filepath(me.url)]) :
                  content' = [content EXCEPT ![Filepath(me.url)] = c]
           /\ proc' = [proc EXCEPT ![p] = Running("close", me.url, me.referer, me.resp)]
    /\ UNCHANGED files
    /\ ConcUnchanged

\* the with statement ends: the buffer is flushed and the file closed; the
\* `downloaded` record is returned
Close(p) ==
    /\ proc[p].pc = "close"
    /\ LET me == proc[p]
       IN  /\ content' = [content EXCEPT ![Filepath(me.url)] = "complete"]
           /\ proc' = [proc EXCEPT ![p] =
                  Finished(me.url, me.referer, me.resp,
                           DownloadedRecord(me.url, me.referer, me.resp), "absent")]
    /\ UNCHANGED files
    /\ ConcUnchanged

\* the caller has the result
Return(p) ==
    /\ proc[p].pc = "done"
    /\ proc' = [proc EXCEPT ![p] = IdleProc]
    /\ UNCHANGED <<files, content>>
    /\ ConcUnchanged

NextConc ==
    \E p \in Procs :
        \/ \E u \in ConcUrls, r \in Referers : Begin(p, u, r)
        \/ CheckExists(p)
        \/ \E resp \in ConcResponses : Get(p, resp)
        \/ Open(p)
        \/ Write(p)
        \/ Close(p)
        \/ Return(p)

SpecConc == InitConc /\ [][NextConc]_vars

----------------------------------------------------------------------------
(* Claims about crawlers running side by side *)

\* C19: with crawlers running download_image side by side, every file there
\* is at a derived path holds the whole payload, and so a crawler that
\* returns the `exists` record found, when it looked, a file holding the
\* whole payload: never an empty or a partly written one.
C19_ExistsMeansComplete ==
    /\ \A q \in Procs :
          (proc[q].pc = "done" /\ proc[q].ret.status = "exists") =>
              proc[q].saw = "complete"
    /\ \A f \in files : content[f] = "complete"

====
